---- MODULE Spec2Model ----
(***************************************************************************)
(* Model of src/index.js: an Express server that stores one JSON object on *)
(* an NFC tag through the reader last announced by nfc-pcsc.               *)
(*                                                                         *)
(* A JavaScript string is a sequence of UTF-16 code units, a Buffer is a   *)
(* sequence of bytes.  An async handler is cut at its awaits: the part of  *)
(* the handler that runs between two awaits is one action, and the         *)
(* hardware settling an outstanding block operation is another.            *)
(***************************************************************************)
EXTENDS Integers, Sequences, FiniteSets, TLC

(***************************************************************************)
(* Bounds of the model.                                                    *)
(***************************************************************************)
MaxStrLen == 1      \* longest string value of an enumerated payload
MaxReaders == 2     \* reader objects nfc-pcsc announces in one run
TagBlocks == 3      \* user blocks (from block 4 on) of a small tag
MaxWrites == 2      \* write requests that pass the size check in one run

(***************************************************************************)
(* Program constants.                                                      *)
(***************************************************************************)
blockSize == 4          \* const blockSize = 4
BaseBlock == 4          \* the 4 of currentReader.write(4 + i, ...)
MaxPayloadBytes == 180  \* Buffer.byteLength(dataString) > 180

(***************************************************************************)
(* Code units the handlers and JSON give a meaning to.                     *)
(***************************************************************************)
NUL == 0
LBrace == 123
RBrace == 125
Quote == 34
Backslash == 92
Colon == 58
Comma == 44
Replacement == 65533    \* U+FFFD, what a UTF-8 decoder puts for bad input

Min(a, b) == IF a < b THEN a ELSE b

CeilDiv(a, b) == (a + b - 1) \div b

Max(S) == CHOOSE x \in S : \A y \in S : y <= x

\* The concatenation of ss[lo..hi], halving the range.
RECURSIVE FlattenRange(_, _, _)
FlattenRange(ss, lo, hi) ==
    IF lo > hi THEN <<>>
    ELSE IF lo = hi THEN ss[lo]
    ELSE FlattenRange(ss, lo, (lo + hi) \div 2)
         \o FlattenRange(ss, (lo + hi) \div 2 + 1, hi)

Flatten(ss) == FlattenRange(ss, 1, Len(ss))

Repeat(x, n) == [j \in 1..n |-> x]

At(s, i) == IF i >= 1 /\ i <= Len(s) THEN s[i] ELSE -1

Slice(s, from, to) == SubSeq(s, from + 1, Min(to, Len(s)))

(***************************************************************************)
(* UTF-8, as Buffer.byteLength, buffer.write, Buffer.from(str, 'utf-8')    *)
(* and buf.toString('utf-8') compute it.                                   *)
(***************************************************************************)
IsHighSurrogate(u) == u >= 55296 /\ u <= 56319
IsLowSurrogate(u) == u >= 56320 /\ u <= 57343

Utf8OfCodePoint(cp) ==
    IF cp < 128 THEN <<cp>>
    ELSE IF cp < 2048 THEN <<192 + (cp \div 64), 128 + (cp % 64)>>
    ELSE IF cp < 65536
         THEN <<224 + (cp \div 4096), 128 + ((cp \div 64) % 64), 128 + (cp % 64)>>
    ELSE <<240 + (cp \div 262144), 128 + ((cp \div 4096) % 64),
           128 + ((cp \div 64) % 64), 128 + (cp % 64)>>

\* The UTF-8 bytes the code unit at j gives: a surrogate pair gives four
\* bytes at its first unit and none at its second, a lone surrogate U+FFFD.
Utf8OfUnit(s, j) ==
    LET u == s[j] IN
    IF IsLowSurrogate(u) /\ IsHighSurrogate(At(s, j - 1)) THEN <<>>
    ELSE IF IsHighSurrogate(u) /\ IsLowSurrogate(At(s, j + 1))
    THEN Utf8OfCodePoint(65536 + (u - 55296) * 1024 + (s[j + 1] - 56320))
    ELSE IF IsHighSurrogate(u) \/ IsLowSurrogate(u) THEN Utf8OfCodePoint(Replacement)
    ELSE Utf8OfCodePoint(u)

Utf8Encode(s) == Flatten([j \in 1..Len(s) |-> Utf8OfUnit(s, j)])

ByteLength(s) == Len(Utf8Encode(s))

IsCont(b) == b >= 128 /\ b <= 191

\* Decoding from byte j on: the bytes taken (n) and the code units given (u).
\* Every maximal ill-formed part becomes one U+FFFD.
Utf8Unit(b, j) ==
    LET b0 == b[j]
        b1 == At(b, j + 1)
        b2 == At(b, j + 2)
        b3 == At(b, j + 3)
        lo == IF b0 = 224 THEN 160 ELSE IF b0 = 240 THEN 144 ELSE 128
        hi == IF b0 = 237 THEN 159 ELSE IF b0 = 244 THEN 143 ELSE 191
        need == IF b0 >= 194 /\ b0 <= 223 THEN 1
                ELSE IF b0 >= 224 /\ b0 <= 239 THEN 2
                ELSE IF b0 >= 240 /\ b0 <= 244 THEN 3
                ELSE 0
        ok1 == b1 >= lo /\ b1 <= hi
        ok2 == ok1 /\ IsCont(b2)
        ok3 == ok2 /\ IsCont(b3)
        bad(n) == [n |-> n, u |-> <<Replacement>>]
    IN
    IF b0 < 128 THEN [n |-> 1, u |-> <<b0>>]
    ELSE IF need = 0 THEN bad(1)
    ELSE IF need = 1 THEN
         IF ok1 THEN [n |-> 2, u |-> <<(b0 - 192) * 64 + (b1 - 128)>>]
         ELSE bad(1)
    ELSE IF need = 2 THEN
         IF ok2 THEN [n |-> 3,
                      u |-> <<(b0 - 224) * 4096 + (b1 - 128) * 64 + (b2 - 128)>>]
         ELSE IF ok1 THEN bad(2)
         ELSE bad(1)
    ELSE IF ok3 THEN
            LET cp == (b0 - 240) * 262144 + (b1 - 128) * 4096
                      + (b2 - 128) * 64 + (b3 - 128) - 65536
            IN [n |-> 4, u |-> <<55296 + (cp \div 1024), 56320 + (cp % 1024)>>]
         ELSE IF ok2 THEN bad(3)
         ELSE IF ok1 THEN bad(2)
         ELSE bad(1)

\* Whether the decoder starts a unit at byte j: always at a byte that is no
\* continuation byte, and at a continuation byte that the unit of the
\* nearest byte before it that is none does not take.
Utf8Start(b, j) ==
    LET k == IF ~IsCont(At(b, j - 1)) THEN j - 1
             ELSE IF ~IsCont(At(b, j - 2)) THEN j - 2
             ELSE IF ~IsCont(At(b, j - 3)) THEN j - 3
             ELSE 0
    IN \/ ~IsCont(b[j])
       \/ k < 1
       \/ k + Utf8Unit(b, k).n <= j

\* buf.toString('utf-8')
Utf8Decode(b) ==
    Flatten([j \in 1..Len(b) |-> IF Utf8Start(b, j) THEN Utf8Unit(b, j).u ELSE <<>>])

\* str.replace(/\0/g, '')
StripNul(s) == SelectSeq(s, LAMBDA u : u # NUL)

\* WhiteSpace and LineTerminator code units, which String.prototype.trim drops.
IsWhiteSpace(u) ==
    \/ u \in {9, 10, 11, 12, 13, 32, 160, 5760, 8232, 8233, 8239, 8287, 12288, 65279}
    \/ (u >= 8192 /\ u <= 8202)

RECURSIVE TrimStart(_)
TrimStart(s) ==
    IF s # <<>> /\ IsWhiteSpace(Head(s)) THEN TrimStart(Tail(s)) ELSE s

RECURSIVE TrimEnd(_)
TrimEnd(s) ==
    IF s # <<>> /\ IsWhiteSpace(s[Len(s)])
    THEN TrimEnd(SubSeq(s, 1, Len(s) - 1)) ELSE s

Trim(s) == TrimEnd(TrimStart(s))

(***************************************************************************)
(* JSON.  A payload is the request body, an object: the sequence of its    *)
(* members in property order, with distinct keys.  A value is a string     *)
(* [t |-> "str", s |-> code units], a number [t |-> "num", n |-> n], or,   *)
(* out of JSON.parse only, an object, an array or a literal.               *)
(***************************************************************************)
Str(s) == [t |-> "str", s |-> s]
Num(n) == [t |-> "num", n |-> n]
Member(k, v) == [k |-> k, v |-> v]

HexDigit(n) == IF n < 10 THEN 48 + n ELSE 87 + n

Hex4(u) == <<HexDigit(u \div 4096), HexDigit((u \div 256) % 16),
             HexDigit((u \div 16) % 16), HexDigit(u % 16)>>

RECURSIVE Digits(_)
Digits(n) == IF n < 10 THEN <<48 + n>> ELSE Digits(n \div 10) \o <<48 + (n % 10)>>

\* The escapes of JSON.stringify's QuoteJSONString for the code unit at j.
QuoteUnit(s, j) ==
    LET u == s[j] IN
    IF \/ IsHighSurrogate(u) /\ IsLowSurrogate(At(s, j + 1))
       \/ IsLowSurrogate(u) /\ IsHighSurrogate(At(s, j - 1))
    THEN <<u>>
    ELSE CASE u = Quote -> <<Backslash, Quote>>
           [] u = Backslash -> <<Backslash, Backslash>>
           [] u = 8 -> <<Backslash, 98>>
           [] u = 9 -> <<Backslash, 116>>
           [] u = 10 -> <<Backslash, 110>>
           [] u = 12 -> <<Backslash, 102>>
           [] u = 13 -> <<Backslash, 114>>
           [] OTHER -> IF u < 32 \/ IsHighSurrogate(u) \/ IsLowSurrogate(u)
                       THEN <<Backslash, 117>> \o Hex4(u)
                       ELSE <<u>>

QuoteBody(s) == Flatten([j \in 1..Len(s) |-> QuoteUnit(s, j)])

QuoteJSON(s) == <<Quote>> \o QuoteBody(s) \o <<Quote>>

ValueText(v) == IF v.t = "str" THEN QuoteJSON(v.s) ELSE Digits(v.n)

RECURSIVE MembersText(_)
MembersText(p) ==
    IF p = <<>> THEN <<>>
    ELSE QuoteJSON(p[1].k) \o <<Colon>> \o ValueText(p[1].v)
         \o (IF Len(p) > 1 THEN <<Comma>> ELSE <<>>) \o MembersText(Tail(p))

\* JSON.stringify(data)
Stringify(p) == <<LBrace>> \o MembersText(p) \o <<RBrace>>

\* The object a payload denotes: what deep equality compares.
ObjectOf(p) ==
    [t |-> "obj",
     m |-> [k \in {p[j].k : j \in 1..Len(p)} |->
               p[CHOOSE j \in 1..Len(p) : p[j].k = k].v]]

Fail == [ok |-> FALSE, pos |-> 0, v |-> Num(0)]
Done(pos, v) == [ok |-> TRUE, pos |-> pos, v |-> v]

IsDigit(u) == u >= 48 /\ u <= 57

HexValue(u) ==
    IF IsDigit(u) THEN u - 48
    ELSE IF u >= 97 /\ u <= 102 THEN u - 87
    ELSE IF u >= 65 /\ u <= 70 THEN u - 55
    ELSE -1

RECURSIVE SkipWs(_, _)
SkipWs(s, i) == IF At(s, i) \in {32, 9, 10, 13} THEN SkipWs(s, i + 1) ELSE i

RECURSIVE SkipDigits(_, _)
SkipDigits(s, i) == IF IsDigit(At(s, i)) THEN SkipDigits(s, i + 1) ELSE i

RECURSIVE NatOf(_)
NatOf(d) == IF d = <<>> THEN 0
            ELSE NatOf(SubSeq(d, 1, Len(d) - 1)) * 10 + (d[Len(d)] - 48)

\* The backslashes that end at position j, one after the other.
RECURSIVE BackslashRun(_, _)
BackslashRun(s, j) == IF At(s, j) = Backslash THEN 1 + BackslashRun(s, j - 1) ELSE 0

\* Position j holds a backslash that opens an escape.
EscapeAt(s, j) == At(s, j) = Backslash /\ BackslashRun(s, j - 1) % 2 = 0

\* What position j of a string body gives: ok is FALSE where JSON.parse
\* throws, u are the code units (none where an escape opened earlier
\* covers the position).
StringUnit(s, j) ==
    LET u == s[j]
        e == At(s, j + 1)
        h == [x \in 1..4 |-> HexValue(At(s, j + 1 + x))]
        good(x) == [ok |-> TRUE, u |-> x]
    IN
    IF EscapeAt(s, j) THEN
         IF e \in {Quote, Backslash, 47} THEN good(<<e>>)
         ELSE IF e = 98 THEN good(<<8>>)
         ELSE IF e = 102 THEN good(<<12>>)
         ELSE IF e = 110 THEN good(<<10>>)
         ELSE IF e = 114 THEN good(<<13>>)
         ELSE IF e = 116 THEN good(<<9>>)
         ELSE IF e = 117 /\ \A x \in 1..4 : h[x] >= 0
              THEN good(<<h[1] * 4096 + h[2] * 256 + h[3] * 16 + h[4]>>)
         ELSE [ok |-> FALSE, u |-> <<>>]
    ELSE IF EscapeAt(s, j - 1) THEN good(<<>>)
    ELSE IF \E x \in 2..5 : EscapeAt(s, j - x) /\ At(s, j - x + 1) = 117 THEN good(<<>>)
    ELSE IF u < 32 THEN [ok |-> FALSE, u |-> <<>>]
    ELSE good(<<u>>)

\* The characters of a JSON string from position i, just after its opening
\* quote, up to the first quote that no escape covers.
ParseStringBody(s, i) ==
    LET closing == {j \in i..Len(s) : s[j] = Quote /\ BackslashRun(s, j - 1) % 2 = 0}
        c == CHOOSE j \in closing : \A x \in closing : j <= x
        body == SubSeq(s, i, c - 1)
        units == [j \in 1..Len(body) |-> StringUnit(body, j)]
    IN
    IF closing = {} THEN Fail
    ELSE IF \E j \in 1..Len(body) : ~units[j].ok THEN Fail
    ELSE Done(c + 1, Str(Flatten([j \in 1..Len(body) |-> units[j].u])))

\* A JSON number from position i: -? int frac? exp?.  A plain natural keeps
\* its value; any other form keeps its text.
ParseNumber(s, i) ==
    LET i0 == IF At(s, i) = 45 THEN i + 1 ELSE i
        i1 == IF At(s, i0) = 48 THEN i0 + 1 ELSE SkipDigits(s, i0)
        f1 == IF At(s, i1) = 46 THEN SkipDigits(s, i1 + 1) ELSE i1
        e0 == IF At(s, f1) \in {101, 69}
              THEN (IF At(s, f1 + 1) \in {43, 45} THEN f1 + 2 ELSE f1 + 1)
              ELSE f1
        e1 == IF e0 > f1 THEN SkipDigits(s, e0) ELSE f1
    IN
    IF i1 = i0 THEN Fail
    ELSE IF At(s, i1) = 46 /\ f1 = i1 + 1 THEN Fail
    ELSE IF e0 > f1 /\ e1 = e0 THEN Fail
    ELSE IF e1 = i1 /\ i0 = i THEN Done(i1, Num(NatOf(SubSeq(s, i, i1 - 1))))
    ELSE Done(e1, [t |-> "numtext", s |-> SubSeq(s, i, e1 - 1)])

Literal(s, i, word, v) ==
    IF SubSeq(s, i, Min(Len(s), i + Len(word) - 1)) = word
    THEN Done(i + Len(word), [t |-> "lit", l |-> v])
    ELSE Fail

RECURSIVE ParseValue(_, _)
RECURSIVE ParseMembers(_, _, _)
RECURSIVE ParseElements(_, _, _)

\* The members of an object from position i, at the quote of the next key;
\* a repeated key keeps its last value.
ParseMembers(s, i, m) ==
    IF At(s, i) # Quote THEN Fail
    ELSE LET k == ParseStringBody(s, i + 1) IN
         IF ~k.ok THEN Fail
         ELSE LET c == SkipWs(s, k.pos) IN
              IF At(s, c) # Colon THEN Fail
              ELSE LET v == ParseValue(s, SkipWs(s, c + 1)) IN
                   IF ~v.ok THEN Fail
                   ELSE LET n == SkipWs(s, v.pos)
                            m2 == [x \in DOMAIN m \cup {k.v.s} |->
                                      IF x = k.v.s THEN v.v ELSE m[x]]
                        IN
                        IF At(s, n) = Comma THEN ParseMembers(s, SkipWs(s, n + 1), m2)
                        ELSE IF At(s, n) = RBrace
                             THEN Done(n + 1, [t |-> "obj", m |-> m2])
                        ELSE Fail

ParseElements(s, i, a) ==
    LET v == ParseValue(s, i) IN
    IF ~v.ok THEN Fail
    ELSE LET n == SkipWs(s, v.pos) IN
         IF At(s, n) = Comma THEN ParseElements(s, SkipWs(s, n + 1), Append(a, v.v))
         ELSE IF At(s, n) = 93 THEN Done(n + 1, [t |-> "arr", a |-> Append(a, v.v)])
         ELSE Fail

ParseValue(s, i) ==
    LET u == At(s, i) IN
    IF u = LBrace THEN
         (IF At(s, SkipWs(s, i + 1)) = RBrace
          THEN Done(SkipWs(s, i + 1) + 1, [t |-> "obj", m |-> <<>>])
          ELSE ParseMembers(s, SkipWs(s, i + 1), <<>>))
    ELSE IF u = 91 THEN
         (IF At(s, SkipWs(s, i + 1)) = 93
          THEN Done(SkipWs(s, i + 1) + 1, [t |-> "arr", a |-> <<>>])
          ELSE ParseElements(s, SkipWs(s, i + 1), <<>>))
    ELSE IF u = Quote THEN ParseStringBody(s, i + 1)
    ELSE IF u = 45 \/ IsDigit(u) THEN ParseNumber(s, i)
    ELSE IF u = 116 THEN Literal(s, i, <<116, 114, 117, 101>>, "true")
    ELSE IF u = 102 THEN Literal(s, i, <<102, 97, 108, 115, 101>>, "false")
    ELSE IF u = 110 THEN Literal(s, i, <<110, 117, 108, 108>>, "null")
    ELSE Fail

\* JSON.parse(dataString): [ok |-> FALSE, ...] stands for the SyntaxError.
JSONParse(s) ==
    LET r == ParseValue(s, SkipWs(s, 1)) IN
    IF r.ok /\ SkipWs(s, r.pos) = Len(s) + 1 THEN r ELSE Fail

(***************************************************************************)
(* State.                                                                  *)
(***************************************************************************)
VARIABLES
    currentReader,  \* let currentReader: 0 is null, else a reader object
    status,         \* each reader object: "none", "attached" or "ended"
    card,           \* each reader object: whether reader.card is set
    mem,            \* the card of each reader: its blocks from block 4 on
    req,            \* each request slot: the handler invocation it holds
    nwrites         \* write requests that have passed the size check

vars == <<currentReader, status, card, mem, req, nwrites>>

Readers == 1..MaxReaders
Slots == {1, 2}

NoValue == [t |-> "none"]
NoBody == [type |-> "none", key |-> "", text |-> "", data |-> NoValue]
Text(s) == [type |-> "text", key |-> "", text |-> s, data |-> NoValue]
JsonText(k, s) == [type |-> "json", key |-> k, text |-> s, data |-> NoValue]
JsonData(k, v) == [type |-> "json", key |-> k, text |-> "", data |-> v]

NoOp == [reader |-> 0, block |-> 0, chunk |-> <<>>]

\* A free slot: no handler is running in it.  The fields from parsed on
\* record what happened: whether JSON.parse was called, the block operations
\* settled so far, nwrites, currentReader and its card at the entry, and
\* whether the reader of the last settled operation ended (its "end" event
\* was handled) between that operation and the next.
IdleReq ==
    [route |-> "none", pc |-> "idle", data |-> <<>>, dataString |-> <<>>,
     buffer |-> <<>>, i |-> 0, pend |-> NoOp, ok |-> FALSE, chunk |-> <<>>,
     kind |-> "none", res |-> [status |-> 0, body |-> NoBody],
     parsed |-> FALSE, ops |-> <<>>, epoch |-> 0, cr0 |-> 0, card0 |-> FALSE,
     cut |-> FALSE]

\* res.status(code).send(body): the handler is over.
Send(r, kind, code, body) ==
    [r EXCEPT !.pc = "done", !.kind = kind, !.pend = NoOp,
              !.res = [status |-> code, body |-> body]]

\* The handler stops at an await of reader.write / reader.read.
Await(r, reader, block, chunk) ==
    [r EXCEPT !.pc = "await",
              !.pend = [reader |-> reader, block |-> block, chunk |-> chunk]]

(***************************************************************************)
(* POST /nfcWrite                                                          *)
(***************************************************************************)
\* A check that never finds the registry empty (currentReader === undefined).
NoReaderUndefined(cr) == FALSE

\* if (!currentReader)
NoReader(cr) == cr = 0

\* A size check that lets one byte too many through.
TooLargeOffByOne(dataString) == ByteLength(dataString) > MaxPayloadBytes + 1

\* The size check on code units: dataString.length > 180.
TooLargeInUnits(dataString) == Len(dataString) > MaxPayloadBytes

\* if (Buffer.byteLength(dataString) > 180)
TooLarge(dataString) == ByteLength(dataString) > MaxPayloadBytes

\* Math.ceil(dataString.length / blockSize) * blockSize
AllocLength(dataString) == CeilDiv(Len(dataString), blockSize) * blockSize

\* buffer.write(dataString) into a zero-filled buffer of n bytes: the bytes
\* of the whole characters that fit; no part of a character is written.
BufferWrite(n, dataString) ==
    LET b == Utf8Encode(dataString)
        m == IF Len(b) <= n THEN Len(b)
             ELSE Max({e \in 0..n : ~IsCont(b[e + 1])})
    IN SubSeq(b, 1, m) \o Repeat(NUL, n - m)

\* buffer.slice(i * blockSize, (i + 1) * blockSize)
ChunkOf(buffer, i) == Slice(buffer, i * blockSize, (i + 1) * blockSize)

\* for (...; i < buffer.length / blockSize; ...)
MoreChunks(buffer, i) == i * blockSize < Len(buffer)

WriteFailed(r) == Send(r, "WriteFailed", 500, JsonText("error", "Error writing to NFC tag"))

\* One turn of the for loop up to its await; a null currentReader throws a
\* TypeError, which the catch turns into the 500 answer.
WriteLoop(r, cr) ==
    IF MoreChunks(r.buffer, r.i)
    THEN IF cr = 0 THEN WriteFailed(r)
         ELSE Await(r, cr, BaseBlock + r.i, ChunkOf(r.buffer, r.i))
    ELSE Send(r, "Ok", 200, JsonText("message", "Data successfully written to NFC tag"))

\* The handler from its entry to its first await or its answer.
WriteEntry(p, cr, n) ==
    LET r == [IdleReq EXCEPT !.route = "write", !.data = p, !.epoch = n, !.cr0 = cr]
        dataString == Stringify(p)
    IN
    IF NoReader(cr)
    THEN Send(r, "NoReaderAvailable", 500, Text("No NFC reader connected."))
    ELSE IF TooLarge(dataString)
    THEN Send([r EXCEPT !.dataString = dataString], "PayloadTooLarge", 400,
              Text("Data exceeds the maximum size of 180 bytes."))
    ELSE WriteLoop([r EXCEPT !.dataString = dataString,
                             !.buffer = BufferWrite(AllocLength(dataString), dataString),
                             !.i = 0], cr)

\* A write loop that goes on to the next block whatever the last write did.
WriteResumeBlind(r, cr) == WriteLoop([r EXCEPT !.i = r.i + 1], cr)

\* The handler from the settling of reader.write to its next await or answer.
WriteResume(r, cr) ==
    IF ~r.ok THEN WriteFailed(r)
    ELSE WriteLoop([r EXCEPT !.i = r.i + 1], cr)

(***************************************************************************)
(* GET /nfcRead                                                            *)
(***************************************************************************)
\* A check that takes any reader to hold a card.
NoCardUnchecked(hasCard) == FALSE

\* if (!currentReader.card)
NoCard(hasCard) == ~hasCard

\* A framing check that looks at the first character only.
FramedAtStart(dataString) == dataString # <<>> /\ Head(dataString) = LBrace

\* !dataString.startsWith('{') || !dataString.endsWith('}') is false
Framed(dataString) ==
    /\ dataString # <<>>
    /\ Head(dataString) = LBrace
    /\ dataString[Len(dataString)] = RBrace

\* A catch that logs the error and sends nothing.
ReadFailedSilent(r, kind) == [r EXCEPT !.pc = "returned", !.kind = kind, !.pend = NoOp]

ReadFailed(r, kind) == Send(r, kind, 500, Text("Error reading NFC tag"))

\* After the do-while: rebuild the string, check the framing, parse.
ReadFinish(r) ==
    LET dataString == Trim(StripNul(Utf8Decode(r.buffer)))
        r1 == [r EXCEPT !.dataString = dataString]
        parse == JSONParse(dataString)
    IN
    IF ~Framed(dataString) THEN ReadFailed(r1, "MalformedFraming")
    ELSE IF ~parse.ok THEN ReadFailed([r1 EXCEPT !.parsed = TRUE], "ParseError")
    ELSE Send([r1 EXCEPT !.parsed = TRUE], "Ok", 200, JsonData("data", parse.v))

\* chunkData.length < blockSize
ShortChunk(chunkData) == Len(chunkData) < blockSize

\* while (unfinished) and the next turn up to its await; a null
\* currentReader throws inside the inner try, which ends the loop.
ReadLoop(r, cr, unfinished) ==
    IF unfinished /\ cr # 0 THEN Await(r, cr, BaseBlock + r.i, <<>>)
    ELSE ReadFinish(r)

\* The handler from its entry to its first await or its answer.
ReadEntry(cr, hasCard, n) ==
    LET r == [IdleReq EXCEPT !.route = "read", !.epoch = n, !.cr0 = cr,
                             !.card0 = hasCard] IN
    IF NoReader(cr)
    THEN Send(r, "NoReaderAvailable", 500, Text("No NFC reader connected."))
    ELSE IF NoCard(hasCard)
    THEN Send(r, "NoCardPresent", 404, Text("No card detected. Place a card on the reader."))
    ELSE ReadLoop([r EXCEPT !.buffer = <<>>, !.i = 0], cr, TRUE)

\* A read loop whose catch leaves unfinished set.
ReadResumeKeepsOn(r, cr) ==
    IF r.ok
    THEN LET chunkData == StripNul(Utf8Decode(r.chunk))
             r1 == [r EXCEPT !.buffer = r.buffer \o Utf8Encode(chunkData),
                             !.i = r.i + 1]
         IN ReadLoop(r1, cr, ~ShortChunk(chunkData))
    ELSE ReadLoop(r, cr, TRUE)

\* The handler from the settling of reader.read to its next await or answer.
ReadResume(r, cr) ==
    IF r.ok
    THEN LET chunkData == StripNul(Utf8Decode(r.chunk))
             r1 == [r EXCEPT !.buffer = r.buffer \o Utf8Encode(chunkData),
                             !.i = r.i + 1]
         IN ReadLoop(r1, cr, ~ShortChunk(chunkData))
    ELSE ReadLoop(r, cr, FALSE)

(***************************************************************************)
(* Request bodies and tags the model draws from.                           *)
(***************************************************************************)
KeyA == <<97>>
ValueChars == {120, 233}    \* x and e-acute (two bytes in UTF-8)

Strings == UNION {[1..n -> ValueChars] : n \in 0..MaxStrLen}

\* {"a":"xx...x<tail>"} with n letters x
Long(n, tail) == <<Member(KeyA, Str(Repeat(120, n) \o tail))>>

SmallPayloads ==
    {<<>>, <<Member(KeyA, Num(1))>>, <<Member(KeyA, Num(12))>>,
     <<Member(KeyA, Num(1)), Member(<<98>>, Str(<<32>>))>>,
     Long(0, <<34>>), Long(0, <<233, 233, 233>>), Long(0, <<55357, 56832>>),
     Long(1, <<233>>)}
    \cup {<<Member(KeyA, Str(s))>> : s \in Strings}

\* Serialisations of 180, 181, 180 and 181 bytes; the last is 180 code units.
BigPayloads ==
    {Long(MaxPayloadBytes - 8, <<>>), Long(MaxPayloadBytes - 7, <<>>),
     Long(MaxPayloadBytes - 10, <<233>>), Long(MaxPayloadBytes - 9, <<233>>)}

\* The bodies the full system is run on: a serialisation of two full
\* blocks, one with a two-byte character, and one over the limit.
FewPayloads ==
    {<<Member(KeyA, Num(12))>>, Long(0, <<233>>), Long(MaxPayloadBytes - 7, <<>>)}

Payloads == SmallPayloads \cup BigPayloads

\* Bodies whose serialisation is ASCII, of 2, 7, 8 and 9 bytes, and one that
\* fills a card of TagBlocks blocks.
AsciiPayloads ==
    {<<>>, <<Member(KeyA, Num(1))>>, <<Member(KeyA, Num(12))>>, Long(1, <<>>),
     Long(blockSize * TagBlocks - 8, <<>>)}

BlankTag(n) == Repeat(Repeat(NUL, blockSize), n)

\* A tag that holds the text hello, written by someone else.
HelloTag == <<<<104, 101, 108, 108>>, <<111, 0, 0, 0>>>> \o BlankTag(TagBlocks - 2)

\* A tag all of whose blocks hold four letters.
FullTag(n) == Repeat(Repeat(120, blockSize), n)

\* The most blocks an accepted payload takes.
MaxBlocks == CeilDiv(MaxPayloadBytes, blockSize)

(***************************************************************************)
(* nfc-pcsc events.                                                        *)
(***************************************************************************)
\* A handler that keeps the reader it has when another one is announced.
AttachKeepsFirst(r) ==
    /\ status[r] = "none"
    /\ \A o \in Readers : o < r => status[o] # "none"
    /\ status' = [status EXCEPT ![r] = "attached"]
    /\ currentReader' = IF currentReader = 0 THEN r ELSE currentReader
    /\ UNCHANGED <<card, mem, req, nwrites>>

\* nfc.on("reader"): a new reader object is announced.
Attach(r) ==
    /\ status[r] = "none"
    /\ \A o \in Readers : o < r => status[o] # "none"
    /\ status' = [status EXCEPT ![r] = "attached"]
    /\ currentReader' = r
    /\ UNCHANGED <<card, mem, req, nwrites>>

\* A block operation has settled and the handler, once it runs on, asks for
\* the next block: it stands between two block operations.
WantsMore(r) ==
    /\ r.pc = "settled"
    /\ r.ok
    /\ IF r.route = "write" THEN MoreChunks(r.buffer, r.i + 1)
       ELSE ~ShortChunk(StripNul(Utf8Decode(r.chunk)))

\* reader.on("end")
End(r) ==
    /\ status[r] = "attached"
    /\ status' = [status EXCEPT ![r] = "ended"]
    /\ currentReader' = 0
    /\ req' = [q \in Slots |->
                 IF WantsMore(req[q]) /\ req[q].ops[Len(req[q].ops)].reader = r
                 THEN [req[q] EXCEPT !.cut = TRUE] ELSE req[q]]
    /\ UNCHANGED <<card, mem, nwrites>>

\* reader.on("card"): nfc-pcsc has set reader.card.
CardOn(r) ==
    /\ status[r] = "attached"
    /\ ~card[r]
    /\ card' = [card EXCEPT ![r] = TRUE]
    /\ UNCHANGED <<currentReader, status, mem, req, nwrites>>

\* reader.on("card.off"): nfc-pcsc has cleared reader.card.
CardOff(r) ==
    /\ status[r] = "attached"
    /\ card[r]
    /\ card' = [card EXCEPT ![r] = FALSE]
    /\ UNCHANGED <<currentReader, status, mem, req, nwrites>>

(***************************************************************************)
(* The reader settling an outstanding reader.write / reader.read.          *)
(***************************************************************************)
\* The reader can reach the block: it is attached, a card is on it and the
\* card has the block.
CanAccess(op) ==
    /\ status[op.reader] = "attached"
    /\ card[op.reader]
    /\ op.block - BaseBlock + 1 \in 1..Len(mem[op.reader])

Settle(q, ok, chunk) ==
    req' = [req EXCEPT ![q].pc = "settled", ![q].ok = ok, ![q].chunk = chunk,
                       ![q].pend = NoOp,
                       ![q].ops = Append(@, [reader |-> req[q].pend.reader,
                                             block |-> req[q].pend.block,
                                             chunk |-> chunk, ok |-> ok])]

HwWriteOk(q) ==
    /\ req[q].pc = "await" /\ req[q].route = "write"
    /\ CanAccess(req[q].pend)
    /\ mem' = [mem EXCEPT ![req[q].pend.reader][req[q].pend.block - BaseBlock + 1]
                              = req[q].pend.chunk]
    /\ Settle(q, TRUE, req[q].pend.chunk)
    /\ UNCHANGED <<currentReader, status, card, nwrites>>

HwReadOk(q) ==
    /\ req[q].pc = "await" /\ req[q].route = "read"
    /\ CanAccess(req[q].pend)
    /\ Settle(q, TRUE, mem[req[q].pend.reader][req[q].pend.block - BaseBlock + 1])
    /\ UNCHANGED <<currentReader, status, card, mem, nwrites>>

\* The operation is rejected: no reader, no card or no such block.
HwError(q) ==
    /\ req[q].pc = "await"
    /\ ~CanAccess(req[q].pend)
    /\ Settle(q, FALSE, req[q].pend.chunk)
    /\ UNCHANGED <<currentReader, status, card, mem, nwrites>>

\* The operation fails although the block could be reached (a lost frame).
HwFault(q) ==
    /\ req[q].pc = "await"
    /\ CanAccess(req[q].pend)
    /\ Settle(q, FALSE, req[q].pend.chunk)
    /\ UNCHANGED <<currentReader, status, card, mem, nwrites>>

(***************************************************************************)
(* The handlers' steps.                                                    *)
(***************************************************************************)
WriteStart(q, p) ==
    /\ req[q].pc = "idle"
    /\ LET r == WriteEntry(p, currentReader, nwrites)
           accepted == r.kind \notin {"NoReaderAvailable", "PayloadTooLarge"}
       IN /\ accepted => nwrites < MaxWrites
          /\ req' = [req EXCEPT ![q] = r]
          /\ nwrites' = IF accepted THEN nwrites + 1 ELSE nwrites
    /\ UNCHANGED <<currentReader, status, card, mem>>

WriteCont(q) ==
    /\ req[q].pc = "settled" /\ req[q].route = "write"
    /\ req' = [req EXCEPT ![q] = WriteResume(req[q], currentReader)]
    /\ UNCHANGED <<currentReader, status, card, mem, nwrites>>

ReadStart(q) ==
    /\ req[q].pc = "idle"
    /\ req' = [req EXCEPT ![q] =
                  ReadEntry(currentReader,
                            currentReader # 0 /\ card[currentReader], nwrites)]
    /\ UNCHANGED <<currentReader, status, card, mem, nwrites>>

ReadCont(q) ==
    /\ req[q].pc = "settled" /\ req[q].route = "read"
    /\ req' = [req EXCEPT ![q] = ReadResume(req[q], currentReader)]
    /\ UNCHANGED <<currentReader, status, card, mem, nwrites>>

\* The answer has gone out; the slot takes the next request.
Forget(q) ==
    /\ req[q].pc = "done"
    /\ req' = [req EXCEPT ![q] = IdleReq]
    /\ UNCHANGED <<currentReader, status, card, mem, nwrites>>

\* No other handler is between its entry and its answer.
Alone(q) == \A o \in Slots \ {q} : req[o].pc \in {"idle", "done"}

(***************************************************************************)
(* Specifications.                                                         *)
(***************************************************************************)
TypeOK ==
    /\ currentReader \in 0..MaxReaders
    /\ status \in [Readers -> {"none", "attached", "ended"}]
    /\ card \in [Readers -> BOOLEAN]
    /\ nwrites \in 0..MaxWrites

\* The server has started; nfc-pcsc has announced nothing yet.  Each slot
\* takes one request, and the second starts when the first has its answer.
Init ==
    /\ currentReader = 0
    /\ status = [r \in Readers |-> "none"]
    /\ card = [r \in Readers |-> FALSE]
    /\ mem = [r \in Readers |-> BlankTag(TagBlocks)]
    /\ req = [q \in Slots |-> IdleReq]
    /\ nwrites = 0

Next ==
    \/ \E r \in Readers : Attach(r)
    \/ \E r \in Readers : End(r)
    \/ \E r \in Readers : CardOn(r)
    \/ \E r \in Readers : CardOff(r)
    \/ \E q \in Slots : HwWriteOk(q)
    \/ \E q \in Slots : HwReadOk(q)
    \/ \E q \in Slots : HwError(q)
    \/ \E q \in Slots : HwFault(q)
    \/ \E q \in Slots, p \in FewPayloads : Alone(q) /\ WriteStart(q, p)
    \/ \E q \in Slots : WriteCont(q)
    \/ \E q \in Slots : Alone(q) /\ ReadStart(q)
    \/ \E q \in Slots : ReadCont(q)

Spec == Init /\ [][Next]_vars

\* One reader with a blank card on it, requests one after the other, and a
\* reader that fails only where the card has no block.
QuietOn(tags) ==
    /\ currentReader = 1
    /\ status = [r \in Readers |-> IF r = 1 THEN "attached" ELSE "none"]
    /\ card = [r \in Readers |-> r = 1]
    /\ mem \in {[r \in Readers |-> tag] : tag \in tags}
    /\ req = [q \in Slots |-> IdleReq]
    /\ nwrites = 0

InitQuiet == QuietOn({BlankTag(TagBlocks - 1), BlankTag(TagBlocks), HelloTag})

NextQuiet ==
    \/ \E q \in Slots : HwWriteOk(q)
    \/ \E q \in Slots : HwReadOk(q)
    \/ \E q \in Slots : HwError(q)
    \/ \E q \in Slots, p \in SmallPayloads : Alone(q) /\ WriteStart(q, p)
    \/ \E q \in Slots : WriteCont(q)
    \/ \E q \in Slots : Alone(q) /\ ReadStart(q)
    \/ \E q \in Slots : ReadCont(q)
    \/ \E q \in Slots : Forget(q)

SpecQuiet == InitQuiet /\ [][NextQuiet]_vars

\* The same on a card that takes the longest payload, exactly or with a
\* block to spare, for one write of a payload at the size limit.
InitBig == QuietOn({BlankTag(MaxBlocks), BlankTag(MaxBlocks + 1)})

NextBig ==
    \/ \E q \in Slots : HwWriteOk(q)
    \/ \E q \in Slots : HwReadOk(q)
    \/ \E q \in Slots : HwError(q)
    \/ \E q \in Slots, p \in BigPayloads : Alone(q) /\ WriteStart(q, p) /\ nwrites' <= 1
    \/ \E q \in Slots : WriteCont(q)
    \/ \E q \in Slots : Alone(q) /\ ReadStart(q)
    \/ \E q \in Slots : ReadCont(q)
    \/ \E q \in Slots : Forget(q)

SpecBig == InitBig /\ [][NextBig]_vars

\* One read request, on readers that come and go, over a blank tag, a tag
\* with a short text and a tag full of text.  Every outstanding
\* reader.read settles and every handler whose await has settled runs on.
InitRead ==
    /\ currentReader = 0
    /\ status = [r \in Readers |-> "none"]
    /\ card = [r \in Readers |-> FALSE]
    /\ mem \in {[r \in Readers |-> tag] :
                  tag \in {BlankTag(TagBlocks), HelloTag, FullTag(TagBlocks)}}
    /\ req = [q \in Slots |-> IdleReq]
    /\ nwrites = 0

ReadSettles(q) == HwReadOk(q) \/ HwError(q) \/ HwFault(q)

NextRead ==
    \/ \E r \in Readers : Attach(r)
    \/ \E r \in Readers : End(r)
    \/ \E r \in Readers : CardOn(r)
    \/ \E r \in Readers : CardOff(r)
    \/ \E q \in Slots : ReadSettles(q)
    \/ ReadStart(1)
    \/ \E q \in Slots : ReadCont(q)

\* ReadCont(q) can be taken, and changes the state when it is.
ReadContEnabled(q) == req[q].pc = "settled" /\ req[q].route = "read"

\* Weak fairness of ReadCont(q), with ENABLED <<ReadCont(q)>>_vars written as
\* the state predicate it is equivalent to.
FairReadCont(q) == <>[]ReadContEnabled(q) => []<><<ReadCont(q)>>_vars

SpecRead ==
    /\ InitRead /\ [][NextRead]_vars
    /\ \A q \in Slots : WF_vars(ReadSettles(q)) /\ FairReadCont(q)

\* Two requests that may arrive at any time, the second while the handler of
\* the first stands at an await, on one reader with a small blank card.
InitOverlap == QuietOn({BlankTag(TagBlocks - 1)})

NextOverlap ==
    \/ \E q \in Slots : HwWriteOk(q)
    \/ \E q \in Slots : HwReadOk(q)
    \/ \E q \in Slots : HwError(q)
    \/ \E q \in Slots, p \in FewPayloads : WriteStart(q, p)
    \/ \E q \in Slots : WriteCont(q)
    \/ \E q \in Slots : ReadStart(q)
    \/ \E q \in Slots : ReadCont(q)

SpecOverlap == InitOverlap /\ [][NextOverlap]_vars

\* One tag written again and again: ASCII payloads that fit the card, one
\* request after the other, on a reader that fails only where the card has
\* no block.
InitReuse == QuietOn({BlankTag(TagBlocks)})

NextReuse ==
    \/ \E q \in Slots : HwWriteOk(q)
    \/ \E q \in Slots : HwReadOk(q)
    \/ \E q \in Slots : HwError(q)
    \/ \E q \in Slots, p \in AsciiPayloads : Alone(q) /\ WriteStart(q, p)
    \/ \E q \in Slots : WriteCont(q)
    \/ \E q \in Slots : Alone(q) /\ ReadStart(q)
    \/ \E q \in Slots : ReadCont(q)
    \/ \E q \in Slots : Forget(q)

SpecReuse == InitReuse /\ [][NextReuse]_vars

(***************************************************************************)
(* The claims.                                                             *)
(***************************************************************************)
\* The handler in slot q has asked the reader for a block operation.
Issued(q) == req[q].ops # <<>> \/ req[q].pend # NoOp

Finished(q, route) == req[q].route = route /\ req[q].pc = "done"

\* The settled block operations of slot q that failed.
FailedAt(q) == {k \in 1..Len(req[q].ops) : ~req[q].ops[k].ok}

\* The string begins with { and ends with }.
Braced(s) == s # <<>> /\ s[1] = LBrace /\ s[Len(s)] = RBrace

\* The block of a tag at block index b.
BlockAt(r, b) == mem[r][b - BaseBlock + 1]

\* The card of reader r holds the blocks of the buffer and nothing else.
HoldsOnly(r, buffer) ==
    /\ Len(buffer) <= Len(mem[r]) * blockSize
    /\ \A k \in 1..Len(mem[r]) :
          mem[r][k] = IF (k - 1) * blockSize < Len(buffer)
                      THEN SubSeq(buffer, (k - 1) * blockSize + 1, k * blockSize)
                      ELSE Repeat(NUL, blockSize)

\* C1: round trip.  When one write has been accepted and has answered 200,
\* the card holds exactly the blocks it wrote (the blocks after them are
\* blank or missing), and a read that began after it has its answer, that
\* answer is 200 with a payload equal to the written one.
C1_RoundTrip ==
    \A w \in Slots, r \in Slots :
        ( /\ Finished(w, "write") /\ req[w].kind = "Ok" /\ nwrites = 1
          /\ HoldsOnly(1, req[w].buffer)
          /\ Finished(r, "read") /\ req[r].epoch = 1 /\ req[r].ops # <<>> )
        => /\ req[r].kind = "Ok"
           /\ req[r].res.body.data = ObjectOf(req[w].data)

\* C2: padding.  The buffer of an accepted write has a length that is a
\* multiple of 4 and at least the UTF-8 length of the serialised payload,
\* starts with the serialised bytes and is zero after them.
C2_Padding ==
    \A q \in Slots :
        (req[q].route = "write" /\ Issued(q)) =>
            LET bytes == Utf8Encode(Stringify(req[q].data)) IN
            /\ Len(req[q].buffer) % blockSize = 0
            /\ Len(req[q].buffer) >= Len(bytes)
            /\ SubSeq(req[q].buffer, 1, Len(bytes)) = bytes
            /\ \A k \in (Len(bytes) + 1)..Len(req[q].buffer) : req[q].buffer[k] = NUL

\* C3: size boundary.  With a reader attached, a write of at most 180
\* serialised bytes is not answered PayloadTooLarge and goes on to a block
\* write; a write of 181 bytes or more is answered PayloadTooLarge (400) and
\* asks for no block write, and as long as no write has been accepted every
\* card is as it was, blank.
C3_SizeBoundary ==
    /\ \A q \in Slots :
          (req[q].route = "write" /\ req[q].cr0 # 0) =>
              LET size == Len(Utf8Encode(Stringify(req[q].data))) IN
              /\ size >= MaxPayloadBytes + 1 =>
                    /\ req[q].pc = "done" /\ req[q].kind = "PayloadTooLarge"
                    /\ req[q].res.status = 400
                    /\ ~Issued(q)
              /\ size <= MaxPayloadBytes =>
                    /\ req[q].kind # "PayloadTooLarge"
                    /\ Issued(q)
    /\ nwrites = 0 => \A r \in Readers : mem[r] = BlankTag(Len(mem[r]))

\* A write of exactly 180 bytes has written its 45 blocks and answered 200,
\* and a write of 181 bytes has been answered PayloadTooLarge.
C3_Witness ==
    \E a \in Slots, b \in Slots :
        /\ Finished(a, "write") /\ req[a].kind = "Ok"
        /\ Len(Utf8Encode(req[a].dataString)) = MaxPayloadBytes
        /\ Len(req[a].ops) = MaxBlocks
        /\ Finished(b, "write") /\ req[b].kind = "PayloadTooLarge"
        /\ Len(Utf8Encode(req[b].dataString)) = MaxPayloadBytes + 1

\* C4: no reader.  A request that starts while currentReader is null is
\* answered NoReaderAvailable at once, whatever its payload, and asks for no
\* block operation.
C4_NoReader ==
    \A q \in Slots :
        (req[q].route # "none" /\ req[q].cr0 = 0) =>
            /\ req[q].pc = "done"
            /\ req[q].kind = "NoReaderAvailable"
            /\ req[q].res = [status |-> 500, body |-> Text("No NFC reader connected.")]
            /\ ~Issued(q)

\* A write of an oversized payload and a read, both answered NoReaderAvailable.
C4_Witness ==
    \E a \in Slots, b \in Slots :
        /\ Finished(a, "write") /\ req[a].kind = "NoReaderAvailable"
        /\ Len(Utf8Encode(Stringify(req[a].data))) > MaxPayloadBytes
        /\ Finished(b, "read") /\ req[b].kind = "NoReaderAvailable"
        /\ currentReader = 0

\* C5: no card.  A read that starts while a reader is registered whose card
\* is not set is answered NoCardPresent (404) and asks for no block read.
C5_NoCard ==
    \A q \in Slots :
        (req[q].route = "read" /\ req[q].cr0 # 0 /\ ~req[q].card0) =>
            /\ req[q].pc = "done"
            /\ req[q].kind = "NoCardPresent"
            /\ req[q].res.status = 404
            /\ ~Issued(q)

C5_Witness ==
    \E q \in Slots :
        /\ Finished(q, "read") /\ req[q].kind = "NoCardPresent"
        /\ req[q].cr0 # 0 /\ status[req[q].cr0] = "attached" /\ ~Issued(q)

\* C6: detach during an orchestration.  A write or read whose reader's end
\* event was handled between two of its block operations does not end with
\* a success answer.
C6_DetachFails ==
    \A q \in Slots : (req[q].pc = "done" /\ req[q].cut) => req[q].kind # "Ok"

\* C7: write failure.  Once a block write of a write request has failed, it
\* is the last block operation the request asks for, the answer is
\* WriteFailed (500), and, while no other write has been accepted, every
\* block written before the failure still holds what was written.
C7_WriteFailure ==
    \A q \in Slots :
        (req[q].route = "write" /\ FailedAt(q) # {}) =>
            /\ FailedAt(q) = {Len(req[q].ops)}
            /\ req[q].pend = NoOp
            /\ req[q].pc \in {"settled", "done"}
            /\ req[q].pc = "done" =>
                  req[q].kind = "WriteFailed" /\ req[q].res.status = 500
            /\ nwrites = 1 =>
                  \A k \in 1..(Len(req[q].ops) - 1) :
                      BlockAt(req[q].ops[k].reader, req[q].ops[k].block)
                          = req[q].ops[k].chunk

\* A write answered WriteFailed after a failed second or later block write,
\* with its first block on the card.
C7_Witness ==
    \E q \in Slots :
        /\ Finished(q, "write") /\ req[q].kind = "WriteFailed"
        /\ Len(req[q].ops) >= 2
        /\ req[q].ops[1].ok /\ ~req[q].ops[Len(req[q].ops)].ok
        /\ BlockAt(req[q].ops[1].reader, BaseBlock) = SubSeq(req[q].buffer, 1, blockSize)
        /\ BlockAt(req[q].ops[1].reader, BaseBlock) # Repeat(NUL, blockSize)

\* The bytes a read has accumulated from its block reads that succeeded.
Accumulated(ops) ==
    Flatten([k \in 1..Len(ops) |->
                IF ops[k].ok THEN Utf8Encode(StripNul(Utf8Decode(ops[k].chunk)))
                ELSE <<>>])

\* C8: read failure as end of data.  Once a block read of a read request
\* has failed, it is the last block operation the request asks for, and the
\* answer is what the framing check and the JSON parse make of the bytes
\* accumulated before the failure: no other error is reported.
C8_ReadFailureEndsData ==
    \A q \in Slots :
        (req[q].route = "read" /\ FailedAt(q) # {}) =>
            /\ FailedAt(q) = {Len(req[q].ops)}
            /\ req[q].pend = NoOp
            /\ req[q].pc \in {"settled", "done"}
            /\ req[q].pc = "done" =>
                  LET s == Trim(StripNul(Utf8Decode(Accumulated(req[q].ops)))) IN
                  /\ req[q].buffer = Accumulated(req[q].ops)
                  /\ req[q].kind = IF ~Braced(s) THEN "MalformedFraming"
                                   ELSE IF ~JSONParse(s).ok THEN "ParseError"
                                   ELSE "Ok"
                  /\ req[q].kind = "Ok" =>
                        req[q].res = [status |-> 200,
                                      body |-> JsonData("data", JSONParse(s).v)]

\* A read whose third or later block read failed and that answered 200.
C8_Witness ==
    \E q \in Slots :
        /\ Finished(q, "read") /\ req[q].kind = "Ok"
        /\ Len(req[q].ops) >= 3
        /\ ~req[q].ops[Len(req[q].ops)].ok

\* C9: malformed framing.  A read that has left its loop and whose rebuilt
\* string does not both begin with { and end with } is answered
\* MalformedFraming without a call of JSON.parse; ParseError is answered
\* only for a braced string that JSON.parse rejects.
C9_Framing ==
    \A q \in Slots :
        (Finished(q, "read") /\ req[q].ops # <<>>) =>
            LET s == Trim(StripNul(Utf8Decode(req[q].buffer))) IN
            /\ req[q].dataString = s
            /\ ~Braced(s) => req[q].kind = "MalformedFraming" /\ ~req[q].parsed
            /\ req[q].kind = "ParseError" =>
                  Braced(s) /\ req[q].parsed /\ ~JSONParse(s).ok

\* One read has rebuilt hello and been answered MalformedFraming, another
\* has rebuilt a braced string and been answered ParseError.
C9_Witness ==
    \E a \in Slots, b \in Slots :
        /\ Finished(a, "read") /\ req[a].kind = "MalformedFraming"
        /\ req[a].dataString = <<104, 101, 108, 108, 111>>
        /\ Finished(b, "read") /\ req[b].kind = "ParseError"
        /\ Braced(req[b].dataString)

ErrorKinds ==
    {"NoReaderAvailable", "NoCardPresent", "PayloadTooLarge", "WriteFailed",
     "MalformedFraming", "ParseError"}

\* C10: distinct error statuses.  Two answers for different error kinds
\* differ in status code or body.
C10_DistinctStatuses ==
    \A a \in Slots, b \in Slots :
        ( /\ req[a].pc = "done" /\ req[b].pc = "done"
          /\ req[a].kind \in ErrorKinds /\ req[b].kind \in ErrorKinds
          /\ req[a].kind # req[b].kind )
        => req[a].res # req[b].res

\* The serialised bytes of a payload, zero-filled up to the next multiple of
\* the block size.
PaddedBytes(p) ==
    LET b == Utf8Encode(Stringify(p))
    IN b \o Repeat(NUL, CeilDiv(Len(b), blockSize) * blockSize - Len(b))

\* C11: write sequence.  An accepted write none of whose block writes has
\* failed has asked for the blocks of its padded payload one after the other:
\* the j-th settled write went to block 4 + j - 1 with bytes [4(j-1), 4j) of
\* the padded bytes, the outstanding one is the next, and the request
\* answers 200 when all n = ceil(L / 4) of them have settled.
C11_WriteSequence ==
    \A q \in Slots :
        ( /\ req[q].route = "write"
          /\ req[q].kind \notin {"NoReaderAvailable", "PayloadTooLarge"}
          /\ FailedAt(q) = {} )
        => LET padded == PaddedBytes(req[q].data)
               n == Len(padded) \div blockSize
               done == Len(req[q].ops)
           IN /\ done <= n
              /\ \A j \in 1..done :
                    /\ req[q].ops[j].block = BaseBlock + j - 1
                    /\ req[q].ops[j].chunk =
                          SubSeq(padded, blockSize * (j - 1) + 1, blockSize * j)
              /\ req[q].pend # NoOp =>
                    /\ done < n
                    /\ req[q].pend.block = BaseBlock + done
                    /\ req[q].pend.chunk =
                          SubSeq(padded, blockSize * done + 1, blockSize * (done + 1))
              /\ req[q].kind = "Ok" => done = n

\* The same with the blocks counted on the buffer the handler built.
C11_OnBuffer ==
    \A q \in Slots :
        ( /\ req[q].route = "write"
          /\ req[q].kind \notin {"NoReaderAvailable", "PayloadTooLarge"}
          /\ FailedAt(q) = {} )
        => LET n == Len(req[q].buffer) \div blockSize
               done == Len(req[q].ops)
           IN /\ done <= n
              /\ \A j \in 1..done :
                    /\ req[q].ops[j].block = BaseBlock + j - 1
                    /\ req[q].ops[j].chunk =
                          SubSeq(req[q].buffer, blockSize * (j - 1) + 1, blockSize * j)
              /\ req[q].pend # NoOp =>
                    /\ done < n
                    /\ req[q].pend.block = BaseBlock + done
              /\ req[q].kind = "Ok" => done = n

\* The bytes of a block that are not zero.
StrippedBytes(chunk) == SelectSeq(chunk, LAMBDA x : x # NUL)

\* C12: termination via short block.  A read asks for blocks 4, 5, 6, ... in
\* turn; a block read whose bytes without the zeros are fewer than 4 is the
\* last block operation of the request, and once the request has answered
\* its buffer ends with those bytes.
C12_ShortBlockEnds ==
    \A q \in Slots :
        req[q].route = "read" =>
            LET ops == req[q].ops
                n == Len(ops)
            IN /\ \A j \in 1..n : ops[j].block = BaseBlock + j - 1
               /\ req[q].pend # NoOp => req[q].pend.block = BaseBlock + n
               /\ \A j \in 1..n :
                     (ops[j].ok /\ Len(StrippedBytes(ops[j].chunk)) < blockSize) =>
                        LET sb == StrippedBytes(ops[j].chunk)
                            b == req[q].buffer
                        IN /\ j = n
                           /\ req[q].pend = NoOp
                           /\ req[q].pc = "done" =>
                                 /\ Len(b) >= Len(sb)
                                 /\ SubSeq(b, Len(b) - Len(sb) + 1, Len(b)) = sb

\* The same without the claim on the bytes appended: reads go to blocks 4,
\* 5, 6, ... and a short block is the last one read.
C12_StopsOnly ==
    \A q \in Slots :
        req[q].route = "read" =>
            LET ops == req[q].ops
                n == Len(ops)
            IN /\ \A j \in 1..n : ops[j].block = BaseBlock + j - 1
               /\ req[q].pend # NoOp => req[q].pend.block = BaseBlock + n
               /\ \A j \in 1..n :
                     (ops[j].ok /\ Len(StrippedBytes(ops[j].chunk)) < blockSize) =>
                        j = n /\ req[q].pend = NoOp

RegistryStep ==
    /\ \A r \in Readers :
          (status[r] = "none" /\ status'[r] = "attached") => currentReader' = r
    /\ \A r \in Readers :
          (status[r] = "attached" /\ status'[r] = "ended") => currentReader' = 0
    /\ (currentReader' # currentReader) => (status' # status)

\* C14: single session.  The registry starts empty and always holds nothing
\* or one reader; a step in which a reader attaches leaves that reader in
\* the registry, a step in which a reader ends leaves the registry empty,
\* and no other step changes the registry.
C14_SingleSession ==
    /\ currentReader = 0
    /\ [](currentReader = 0 \/ currentReader \in Readers)
    /\ [][RegistryStep]_vars

\* A second reader has attached while the first was attached, and the
\* registry holds the second.
C14_Witness ==
    /\ status[1] = "attached"
    /\ status[2] = "attached"
    /\ currentReader = 2

\* C17: one reader per orchestration.  Every block operation of a request
\* goes to the reader that was registered when the request passed its reader
\* check.
C17_OneReader ==
    \A q \in Slots :
        /\ \A j \in 1..Len(req[q].ops) : req[q].ops[j].reader = req[q].cr0
        /\ req[q].pend # NoOp => req[q].pend.reader = req[q].cr0

\* The readers announced so far.
Announced == {r \in Readers : status[r] # "none"}

\* C18: stale detach.  The registry is empty only if no reader was announced
\* yet or the reader announced last has ended.
C18_StaleDetach ==
    (currentReader = 0 /\ Announced # {}) => status[Max(Announced)] = "ended"

\* The request in slot q is between its first and its last block operation.
InProgress(q) == req[q].pc = "await" \/ WantsMore(req[q])

\* C15: one orchestration per session.  At most one request is between its
\* first and its last block operation.
C15_OnePerSession == Cardinality({q \in Slots : InProgress(q)}) <= 1

\* C16: last write wins.  After writes of ASCII payloads, each complete and
\* without a fault, a read that began after the latest of them and has its
\* answer returns the payload of that latest write.
C16_LastWriteWins ==
    \A w \in Slots, r \in Slots :
        ( /\ Finished(w, "write") /\ req[w].kind = "Ok"
          /\ req[w].epoch = nwrites - 1
          /\ Finished(r, "read") /\ req[r].epoch = nwrites )
        => /\ req[r].kind = "Ok"
           /\ req[r].res.body.data = ObjectOf(req[w].data)

\* Every write of the run was complete and without a fault.
C16_WritesComplete ==
    \A q \in Slots : Finished(q, "write") => req[q].kind = "Ok" /\ FailedAt(q) = {}

\* C19: bounded write range.  Every block write a write request asks for,
\* settled or outstanding, goes to a block from 4 to 48, and the buffer of
\* a write has at most 45 blocks.
C19_WriteRange ==
    \A q \in Slots :
        req[q].route = "write" =>
            /\ Len(req[q].buffer) <= 45 * blockSize
            /\ \A j \in 1..Len(req[q].ops) : req[q].ops[j].block \in 4..48
            /\ req[q].pend # NoOp => req[q].pend.block \in 4..48

\* A write of a payload of 180 bytes has written block 48.
C19_Witness ==
    \E q \in Slots :
        /\ req[q].route = "write"
        /\ Len(Utf8Encode(Stringify(req[q].data))) = 180
        /\ \E j \in 1..Len(req[q].ops) :
              req[q].ops[j].block = 48 /\ req[q].ops[j].ok

====
